---- MODULE Spec2Model ----
(***************************************************************************)
(* Model of build_site.py: the league-standings build.  One run of         *)
(* build_index reads games.json and teams.json, computes the standings     *)
(* table and the per-round listing and writes standings.csv and            *)
(* index.html.                                                             *)
(*                                                                         *)
(* Encoding of values.                                                     *)
(*  - A team name or a date is a natural number.  Names 1..NumTeams are    *)
(*    the stripped names in lexicographic order, 0 is the empty string,    *)
(*    and token Base + n is the name n surrounded by whitespace (so token  *)
(*    Base is a whitespace-only string).                                   *)
(*  - A numeric cell is a natural number, NaN (null / missing) or          *)
(*    NonNumeric (a JSON string that is no number).                        *)
(*  - A DataFrame is the sequence of its rows, each row a record.          *)
(***************************************************************************)
EXTENDS Integers, Sequences, FiniteSets, TLC

VARIABLES
    games_json,     \* parsed content of games.json: [columns, rows]
    teams_json,     \* parsed content of teams.json: [columns, rows]
    pc,             \* position of build_index
    out_dir,        \* TRUE once the output directory exists
    games,          \* DataFrame returned by load_games
    teams_df,       \* DataFrame returned by load_teams (sequence of names)
    standings,      \* DataFrame returned by compute_standings
    rounds_view,    \* DataFrame returned by per_round_table
    files,          \* names of the files written into out_dir
    standings_csv,  \* rows written to standings.csv
    error           \* message of the exception that ended the run, or ""

vars == <<games_json, teams_json, pc, out_dir, games, teams_df, standings,
          rounds_view, files, standings_csv, error>>

-----------------------------------------------------------------------------
(* Bounds of the input space *)

NumTeams == 3
MaxGoals == 1
MaxGames == 2
MaxRoster == 2

-----------------------------------------------------------------------------
(* Values *)

NaN == -1
NonNumeric == -2

Base == NumTeams + 1

needed == <<"Round", "GameInRound", "Date", "HomeTeam", "AwayTeam",
            "HomeGoals", "AwayGoals">>

NeededSet == {needed[i] : i \in DOMAIN needed}

\* pd.to_numeric(..., errors="coerce")
to_numeric(v) == IF v >= 0 THEN v ELSE NaN

\* .astype(str).str.strip()
strip(t) == t % Base

isna(v) == v = NaN

-----------------------------------------------------------------------------
(* Generic helpers on sequences *)

RECURSIVE SeqSum(_)
SeqSum(s) == IF s = <<>> THEN 0 ELSE Head(s) + SeqSum(Tail(s))

Range(s) == {s[i] : i \in DOMAIN s}

SeqsUpTo(S, n) == UNION {[1..k -> S] : k \in 0..n}

-----------------------------------------------------------------------------
(* load_games / load_teams *)

MissingColumns(cols) == {i \in DOMAIN needed : needed[i] \notin cols}

FirstMissing(cols) ==
    CHOOSE i \in MissingColumns(cols) : \A j \in MissingColumns(cols) : i <= j

CoerceGameRow(r) ==
    [Round     |-> to_numeric(r.Round),
     Date      |-> strip(r.Date),
     HomeTeam  |-> strip(r.HomeTeam),
     AwayTeam  |-> strip(r.AwayTeam),
     HomeGoals |-> to_numeric(r.HomeGoals),
     AwayGoals |-> to_numeric(r.AwayGoals)]

load_games(rows) ==
    SelectSeq([i \in DOMAIN rows |-> CoerceGameRow(rows[i])],
              LAMBDA r : r.HomeTeam # 0 /\ r.AwayTeam # 0)

load_teams(rows) ==
    SelectSeq([i \in DOMAIN rows |-> strip(rows[i])], LAMBDA t : t # 0)

-----------------------------------------------------------------------------
(* per_match_points *)

\* per_match_points with two points for a win
per_match_points_two_for_win(row) ==
    LET hg == row.HomeGoals
        ag == row.AwayGoals
    IN  IF isna(hg) \/ isna(ag) THEN <<0, 0, "N">>
        ELSE IF hg > ag THEN <<2, 0, "H">>
        ELSE IF hg < ag THEN <<0, 2, "A">>
        ELSE <<1, 1, "D">>

per_match_points(row) ==
    LET hg == row.HomeGoals
        ag == row.AwayGoals
    IN  IF isna(hg) \/ isna(ag) THEN <<0, 0, "N">>
        ELSE IF hg > ag THEN <<3, 0, "H">>
        ELSE IF hg < ag THEN <<0, 3, "A">>
        ELSE <<1, 1, "D">>

\* games[["HomePts","AwayPts","Outcome"]] = games.apply(per_match_points, ...)
Classify(row) ==
    LET p == per_match_points(row)
    IN  [Round     |-> row.Round,
         Date      |-> row.Date,
         HomeTeam  |-> row.HomeTeam,
         AwayTeam  |-> row.AwayTeam,
         HomeGoals |-> row.HomeGoals,
         AwayGoals |-> row.AwayGoals,
         HomePts   |-> p[1],
         AwayPts   |-> p[2],
         Outcome   |-> p[3]]

-----------------------------------------------------------------------------
(* sort_values: a stable sort under the strict order Before *)

\* before is the set of the pairs <<i, j>> of row indices with row i strictly
\* before row j under the sort key; rows that tie keep their order
SortBy(df, before) ==
    LET pos(i) == 1 + Cardinality({j \in DOMAIN df :
                        \/ <<j, i>> \in before
                        \/ (<<i, j>> \notin before /\ j < i)})
    IN  [k \in DOMAIN df |-> df[CHOOSE i \in DOMAIN df : pos(i) = k]]

\* by=["Points","GD","GF","Team"], ascending=[False, False, False, True]
StandingsBefore(a, b) ==
    \/ a.Points > b.Points
    \/ (a.Points = b.Points /\ a.GD > b.GD)
    \/ (a.Points = b.Points /\ a.GD = b.GD /\ a.GF > b.GF)
    \/ (a.Points = b.Points /\ a.GD = b.GD /\ a.GF = b.GF /\ a.Team < b.Team)

\* ["Round","Date"], na_position="last"
RoundsBefore(a, b) ==
    \/ (~isna(a.Round) /\ isna(b.Round))
    \/ (~isna(a.Round) /\ ~isna(b.Round) /\ a.Round < b.Round)
    \/ (a.Round = b.Round /\ a.Date < b.Date)

\* tbl.sort_values(by=["Points","GD","GF","Team"], ...).reset_index(drop=True)
sort_standings(df) ==
    SortBy(df, {p \in (DOMAIN df) \X (DOMAIN df) :
                    StandingsBefore(df[p[1]], df[p[2]])})

\* out[cols].sort_values(["Round","Date"], na_position="last")
sort_rounds(df) ==
    SortBy(df, {p \in (DOMAIN df) \X (DOMAIN df) :
                    RoundsBefore(df[p[1]], df[p[2]])})

-----------------------------------------------------------------------------
(* comp_rank *)

RankKey(row) == <<row.Points, row.GD, row.GF>>

RECURSIVE comp_rank_loop(_, _, _, _, _)
comp_rank_loop(sorted_df, i, ranks, last_key, last_rank) ==
    IF i > Len(sorted_df) THEN ranks
    ELSE LET key == RankKey(sorted_df[i])
         IN  IF key # last_key
             THEN comp_rank_loop(sorted_df, i + 1, Append(ranks, i), key, i)
             ELSE comp_rank_loop(sorted_df, i + 1, Append(ranks, last_rank),
                                 last_key, last_rank)

\* last_key = None is the empty tuple, which differs from every key
comp_rank(sorted_df) == comp_rank_loop(sorted_df, 1, <<>>, <<>>, 0)

\* st["Rank"] = range(1, len(st)+1)
range_rank(st) == [i \in DOMAIN st |-> i]

WithRank(df, ranks) ==
    [i \in DOMAIN df |->
        [Rank   |-> ranks[i],
         Team   |-> df[i].Team,
         Played |-> df[i].Played,
         Wins   |-> df[i].Wins,
         Draws  |-> df[i].Draws,
         Losses |-> df[i].Losses,
         GF     |-> df[i].GF,
         GA     |-> df[i].GA,
         GD     |-> df[i].GD,
         Points |-> df[i].Points]]

-----------------------------------------------------------------------------
(* ensure_all_teams *)

ZeroRow(t) ==
    [Team |-> t, Played |-> 0, Wins |-> 0, Draws |-> 0, Losses |-> 0,
     GF |-> 0, GA |-> 0, GD |-> 0, Points |-> 0]

\* zeros.merge(standings, on="Team", how="left"): the rows of the roster in
\* roster order, each with its matching rows of standings, or with NaN
\* counters (filled with 0) when there is none
RECURSIVE MergeLeft(_, _)
MergeLeft(all_teams_df, st) ==
    IF all_teams_df = <<>> THEN <<>>
    ELSE LET t == Head(all_teams_df)
             m == SelectSeq(st, LAMBDA r : r.Team = t)
         IN  (IF m = <<>> THEN <<ZeroRow(t)>> ELSE m)
                 \o MergeLeft(Tail(all_teams_df), st)

ensure_all_teams(st, all_teams_df) == MergeLeft(all_teams_df, st)

-----------------------------------------------------------------------------
(* compute_standings *)

RECURSIVE SortedKeys(_)
\* groupby sorts the group keys
SortedKeys(S) ==
    IF S = {} THEN <<>>
    ELSE LET m == CHOOSE x \in S : \A y \in S : x <= y
         IN  <<m>> \o SortedKeys(S \ {m})

Column(df, c) == [i \in DOMAIN df |-> df[i][c]]

CountOutcome(g, o) == Len(SelectSeq(g, LAMBDA r : r.Outcome = o))

\* home with GF and GA taken from the wrong side
home_goals_swapped(played) ==
    LET keys == SortedKeys({played[i].HomeTeam : i \in DOMAIN played})
    IN  [k \in DOMAIN keys |->
            LET g == SelectSeq(played, LAMBDA r : r.HomeTeam = keys[k])
            IN  [Team   |-> keys[k],
                 Played |-> Len(g),
                 Wins   |-> CountOutcome(g, "H"),
                 Draws  |-> CountOutcome(g, "D"),
                 Losses |-> CountOutcome(g, "A"),
                 GF     |-> SeqSum(Column(g, "AwayGoals")),
                 GA     |-> SeqSum(Column(g, "HomeGoals")),
                 Points |-> SeqSum(Column(g, "HomePts"))]]

\* played.groupby("HomeTeam").agg(...).reset_index().rename(...)
home(played) ==
    LET keys == SortedKeys({played[i].HomeTeam : i \in DOMAIN played})
    IN  [k \in DOMAIN keys |->
            LET g == SelectSeq(played, LAMBDA r : r.HomeTeam = keys[k])
            IN  [Team   |-> keys[k],
                 Played |-> Len(g),
                 Wins   |-> CountOutcome(g, "H"),
                 Draws  |-> CountOutcome(g, "D"),
                 Losses |-> CountOutcome(g, "A"),
                 GF     |-> SeqSum(Column(g, "HomeGoals")),
                 GA     |-> SeqSum(Column(g, "AwayGoals")),
                 Points |-> SeqSum(Column(g, "HomePts"))]]

\* away with the home side's Wins and Losses outcomes (not mirrored)
away_not_mirrored(played) ==
    LET keys == SortedKeys({played[i].AwayTeam : i \in DOMAIN played})
    IN  [k \in DOMAIN keys |->
            LET g == SelectSeq(played, LAMBDA r : r.AwayTeam = keys[k])
            IN  [Team   |-> keys[k],
                 Played |-> Len(g),
                 Wins   |-> CountOutcome(g, "A"),
                 Draws  |-> CountOutcome(g, "D"),
                 Losses |-> CountOutcome(g, "A"),
                 GF     |-> SeqSum(Column(g, "AwayGoals")),
                 GA     |-> SeqSum(Column(g, "HomeGoals")),
                 Points |-> SeqSum(Column(g, "AwayPts"))]]

\* played.groupby("AwayTeam").agg(...).reset_index().rename(...)
away(played) ==
    LET keys == SortedKeys({played[i].AwayTeam : i \in DOMAIN played})
    IN  [k \in DOMAIN keys |->
            LET g == SelectSeq(played, LAMBDA r : r.AwayTeam = keys[k])
            IN  [Team   |-> keys[k],
                 Played |-> Len(g),
                 Wins   |-> CountOutcome(g, "A"),
                 Draws  |-> CountOutcome(g, "D"),
                 Losses |-> CountOutcome(g, "H"),
                 GF     |-> SeqSum(Column(g, "AwayGoals")),
                 GA     |-> SeqSum(Column(g, "HomeGoals")),
                 Points |-> SeqSum(Column(g, "AwayPts"))]]

\* pd.concat([home, away]).groupby("Team", as_index=False).sum(numeric_only=True)
\* agg["GD"] = agg["GF"] - agg["GA"]
agg(home_df, away_df) ==
    LET both == home_df \o away_df
        keys == SortedKeys({both[i].Team : i \in DOMAIN both})
    IN  [k \in DOMAIN keys |->
            LET g  == SelectSeq(both, LAMBDA r : r.Team = keys[k])
                gf == SeqSum(Column(g, "GF"))
                ga == SeqSum(Column(g, "GA"))
            IN  [Team   |-> keys[k],
                 Played |-> SeqSum(Column(g, "Played")),
                 Wins   |-> SeqSum(Column(g, "Wins")),
                 Draws  |-> SeqSum(Column(g, "Draws")),
                 Losses |-> SeqSum(Column(g, "Losses")),
                 GF     |-> gf,
                 GA     |-> ga,
                 GD     |-> gf - ga,
                 Points |-> SeqSum(Column(g, "Points"))]]

\* the two early returns: no games, or no played games
empty_standings(teams) ==
    LET st == sort_standings(ensure_all_teams(<<>>, teams))
    IN  WithRank(st, range_rank(st))

\* the games DataFrame after the in-place annotation of line 69
annotated(games_df) ==
    IF games_df = <<>> THEN games_df
    ELSE [i \in DOMAIN games_df |-> Classify(games_df[i])]

compute_standings(games_df, teams) ==
    IF games_df = <<>> THEN empty_standings(teams)
    ELSE LET played == SelectSeq(annotated(games_df),
                                 LAMBDA r : r.Outcome # "N")
         IN  IF played = <<>> THEN empty_standings(teams)
             ELSE LET tbl == sort_standings(ensure_all_teams(
                                  agg(home(played), away(played)), teams))
                  IN  WithRank(tbl, comp_rank(tbl))

-----------------------------------------------------------------------------
(* per_round_table *)

ListingRow(r) ==
    [Round     |-> r.Round,
     Date      |-> r.Date,
     HomeTeam  |-> r.HomeTeam,
     AwayTeam  |-> r.AwayTeam,
     HomeGoals |-> r.HomeGoals,
     AwayGoals |-> r.AwayGoals]

\* per_round_table that lists the played matches only
per_round_table_played_only(games_df) ==
    sort_rounds(SelectSeq([i \in DOMAIN games_df |-> ListingRow(games_df[i])],
                          LAMBDA r : ~isna(r.HomeGoals) /\ ~isna(r.AwayGoals)))

per_round_table(games_df) ==
    sort_rounds([i \in DOMAIN games_df |-> ListingRow(games_df[i])])

-----------------------------------------------------------------------------
(* The input files.  read_json_df builds the DataFrame from a list of       *)
(* objects, so an empty list has no columns at all.                         *)

GoalCells == {NaN} \cup (0..MaxGoals)

TeamNames == 1..NumTeams

\* rows that exercise the standings: every pairing (a team against itself
\* included) with every score, played or not
StandingsRows ==
    [Round : {1}, Date : {1},
     HomeTeam : TeamNames, AwayTeam : TeamNames,
     HomeGoals : GoalCells, AwayGoals : GoalCells]

\* rows that exercise the loader's coercions, the dropping of rows with a
\* blank name and the listing order
ListingRows ==
    [Round : {NaN, NonNumeric, 1, 2}, Date : {1, 2, Base + 1},
     HomeTeam : {1, Base + 1, Base}, AwayTeam : {2},
     HomeGoals : {NonNumeric, 1}, AwayGoals : {0}]

GamesFile(rows) ==
    [columns |-> IF rows = <<>> THEN {} ELSE NeededSet, rows |-> rows]

TeamsFile(rows) ==
    [columns |-> IF rows = <<>> THEN {} ELSE {"Team"}, rows |-> rows]

SomeRow == CHOOSE r \in StandingsRows : r.HomeTeam = 1 /\ r.AwayTeam = 2

\* the roster that lists every team once
FullRoster == [i \in 1..NumTeams |-> i]

StandingsInputs ==
    {[games |-> GamesFile(g), teams |-> TeamsFile(t)] :
        g \in SeqsUpTo(StandingsRows, MaxGames),
        t \in SeqsUpTo(TeamNames, MaxRoster) \cup {FullRoster}}

ListingInputs ==
    {[games |-> GamesFile(g), teams |-> TeamsFile(t)] :
        g \in SeqsUpTo(ListingRows, MaxGames),
        t \in {<<1, 2>>, <<Base + 1, Base, 2>>, <<0>>}}

\* files that lack columns
SchemaInputs ==
    {[games |-> [columns |-> c, rows |-> <<SomeRow>>], teams |-> t] :
        c \in SUBSET NeededSet,
        t \in {TeamsFile(<<1, 2>>), [columns |-> {"Name"}, rows |-> <<1, 2>>]}}

Inputs == StandingsInputs \cup ListingInputs \cup SchemaInputs

-----------------------------------------------------------------------------
(* build_index *)

Init ==
    /\ \E in \in Inputs : games_json = in.games /\ teams_json = in.teams
    /\ pc = "makedirs"
    /\ out_dir = FALSE
    /\ games = <<>>
    /\ teams_df = <<>>
    /\ standings = <<>>
    /\ rounds_view = <<>>
    /\ files = {}
    /\ standings_csv = <<>>
    /\ error = <<>>

\* os.makedirs(out_dir, exist_ok=True)
MakeDirs ==
    /\ pc = "makedirs"
    /\ out_dir' = TRUE
    /\ pc' = "load_games"
    /\ UNCHANGED <<games_json, teams_json, games, teams_df, standings,
                   rounds_view, files, standings_csv, error>>

\* games = load_games(games_path)
LoadGames ==
    /\ pc = "load_games"
    /\ MissingColumns(games_json.columns) = {}
    /\ games' = load_games(games_json.rows)
    /\ pc' = "load_teams"
    /\ UNCHANGED <<games_json, teams_json, out_dir, teams_df, standings,
                   rounds_view, files, standings_csv, error>>

\* load_games raises ValueError; nothing in build_index or __main__ catches it
LoadGamesRaises ==
    /\ pc = "load_games"
    /\ MissingColumns(games_json.columns) # {}
    /\ error' = <<"ValueError", "Missing required column",
                  needed[FirstMissing(games_json.columns)]>>
    /\ pc' = "crashed"
    /\ UNCHANGED <<games_json, teams_json, out_dir, games, teams_df, standings,
                   rounds_view, files, standings_csv>>

\* teams_df = load_teams(teams_path)
LoadTeams ==
    /\ pc = "load_teams"
    /\ "Team" \in teams_json.columns
    /\ teams_df' = load_teams(teams_json.rows)
    /\ pc' = "compute_standings"
    /\ UNCHANGED <<games_json, teams_json, out_dir, games, standings,
                   rounds_view, files, standings_csv, error>>

LoadTeamsRaises ==
    /\ pc = "load_teams"
    /\ "Team" \notin teams_json.columns
    /\ error' = <<"ValueError", "teams.json must include a 'Team' field">>
    /\ pc' = "crashed"
    /\ UNCHANGED <<games_json, teams_json, out_dir, games, teams_df, standings,
                   rounds_view, files, standings_csv>>

\* standings = compute_standings(games, teams_df); the call annotates games
ComputeStandings ==
    /\ pc = "compute_standings"
    /\ standings' = compute_standings(games, teams_df)
    /\ games' = annotated(games)
    /\ pc' = "per_round_table"
    /\ UNCHANGED <<games_json, teams_json, out_dir, teams_df, rounds_view,
                   files, standings_csv, error>>

\* rounds_view = per_round_table(games)
PerRoundTable ==
    /\ pc = "per_round_table"
    /\ rounds_view' = per_round_table(games)
    /\ pc' = "write_csv"
    /\ UNCHANGED <<games_json, teams_json, out_dir, games, teams_df, standings,
                   files, standings_csv, error>>

\* Path(out_dir, "standings.csv").write_text(standings.to_csv(index=False))
WriteCsv ==
    /\ pc = "write_csv"
    /\ standings_csv' = standings
    /\ files' = files \cup {"standings.csv"}
    /\ pc' = "write_html"
    /\ UNCHANGED <<games_json, teams_json, out_dir, games, teams_df, standings,
                   rounds_view, error>>

\* Path(out_dir, "index.html").write_text(html)
WriteHtml ==
    /\ pc = "write_html"
    /\ files' = files \cup {"index.html"}
    /\ pc' = "done"
    /\ UNCHANGED <<games_json, teams_json, out_dir, games, teams_df, standings,
                   rounds_view, standings_csv, error>>

Next ==
    \/ MakeDirs
    \/ LoadGames
    \/ LoadGamesRaises
    \/ LoadTeams
    \/ LoadTeamsRaises
    \/ ComputeStandings
    \/ PerRoundTable
    \/ WriteCsv
    \/ WriteHtml

Spec == Init /\ [][Next]_vars

-----------------------------------------------------------------------------
(* Vocabulary of the properties *)

\* compute_standings has returned
StandingsReady == pc \in {"per_round_table", "write_csv", "write_html", "done"}

\* per_round_table has returned
ListingReady == pc \in {"write_csv", "write_html", "done"}

Terminated == pc \in {"done", "crashed"}

\* the loaded matches in which both goal counts are present
PlayedIdx ==
    {i \in DOMAIN games : games[i].HomeGoals # NaN /\ games[i].AwayGoals # NaN}

UnplayedIdx == DOMAIN games \ PlayedIdx

HomeIdx(t) == {i \in PlayedIdx : games[i].HomeTeam = t}

AwayIdx(t) == {i \in PlayedIdx : games[i].AwayTeam = t}

RECURSIVE SumOver(_, _)
\* the sum of f[i] over the indices i in I
SumOver(f, I) ==
    IF I = {} THEN 0
    ELSE LET i == CHOOSE x \in I : TRUE IN f[i] + SumOver(f, I \ {i})

HomeGoalsOf == [i \in DOMAIN games |-> games[i].HomeGoals]

AwayGoalsOf == [i \in DOMAIN games |-> games[i].AwayGoals]

\* the record of team t folded directly from the played matches
Fold(t) ==
    LET w == Cardinality({i \in HomeIdx(t) : HomeGoalsOf[i] > AwayGoalsOf[i]})
             + Cardinality({i \in AwayIdx(t) : AwayGoalsOf[i] > HomeGoalsOf[i]})
        d == Cardinality({i \in HomeIdx(t) : HomeGoalsOf[i] = AwayGoalsOf[i]})
             + Cardinality({i \in AwayIdx(t) : AwayGoalsOf[i] = HomeGoalsOf[i]})
        l == Cardinality({i \in HomeIdx(t) : HomeGoalsOf[i] < AwayGoalsOf[i]})
             + Cardinality({i \in AwayIdx(t) : AwayGoalsOf[i] < HomeGoalsOf[i]})
        gf == SumOver(HomeGoalsOf, HomeIdx(t)) + SumOver(AwayGoalsOf, AwayIdx(t))
        ga == SumOver(AwayGoalsOf, HomeIdx(t)) + SumOver(HomeGoalsOf, AwayIdx(t))
    IN  [Team   |-> t,
         Played |-> Cardinality(HomeIdx(t)) + Cardinality(AwayIdx(t)),
         Wins   |-> w,
         Draws  |-> d,
         Losses |-> l,
         GF     |-> gf,
         GA     |-> ga,
         GD     |-> gf - ga,
         Points |-> 3 * w + d]

\* a standings row without its Rank
Counters(row) ==
    [Team   |-> row.Team,
     Played |-> row.Played,
     Wins   |-> row.Wins,
     Draws  |-> row.Draws,
     Losses |-> row.Losses,
     GF     |-> row.GF,
     GA     |-> row.GA,
     GD     |-> row.GD,
     Points |-> row.Points]

CounterRows(st) == {Counters(st[i]) : i \in DOMAIN st}

TeamsSeen ==
    {games[i].HomeTeam : i \in DOMAIN games}
        \cup {games[i].AwayTeam : i \in DOMAIN games}

RemoveAt(s, i) == SubSeq(s, 1, i - 1) \o SubSeq(s, i + 1, Len(s))

FirstOfTieGroup(i) ==
    CHOOSE j \in DOMAIN standings :
        /\ RankKey(standings[j]) = RankKey(standings[i])
        /\ \A k \in DOMAIN standings :
              RankKey(standings[k]) = RankKey(standings[i]) => j <= k

-----------------------------------------------------------------------------
(* Properties *)

\* C1: the Rank column is non-decreasing down the rows, rows with the same
\* (Points, GD, GF) have the same Rank, and each Rank is the 1-based position
\* of the first row of its tie group, whatever the roster and the match list.
C1_CompetitionRanking ==
    StandingsReady =>
        /\ \A i \in DOMAIN standings : \A j \in DOMAIN standings :
              /\ i <= j => standings[i].Rank <= standings[j].Rank
              /\ RankKey(standings[i]) = RankKey(standings[j])
                    => standings[i].Rank = standings[j].Rank
        /\ \A i \in DOMAIN standings :
              standings[i].Rank = FirstOfTieGroup(i)

\* C2: the team names of the standings are exactly the roster's names
\* together with the names that appear as HomeTeam or AwayTeam of a loaded
\* match.
C2_TeamsAreRosterUnionSeen ==
    StandingsReady =>
        {standings[i].Team : i \in DOMAIN standings}
            = Range(teams_df) \cup TeamsSeen

\* C3: the Played column of the standings sums to twice the number of played
\* matches.
C3_PlayedSumsToTwicePlayed ==
    StandingsReady =>
        SeqSum(Column(standings, "Played"))
            = 2 * Cardinality(PlayedIdx)

\* C4: a run whose match data lacks a required column does not end with an
\* uncaught exception; it ends with index.html written.
C4_FallbackDocument ==
    (Terminated /\ MissingColumns(games_json.columns) # {})
        => (error = <<>> /\ "index.html" \in files)

\* C5: every roster team has a row, and the counters of each of its rows are
\* the fold over the played matches (all zero when it played none).
C5_RosterRowsAreTheFold ==
    StandingsReady =>
        \A t \in Range(teams_df) :
            /\ \E i \in DOMAIN standings : standings[i].Team = t
            /\ \A i \in DOMAIN standings :
                  standings[i].Team = t => Counters(standings[i]) = Fold(t)

\* C5 witness: a roster team that won a match has its row, next to a roster
\* team that played no match
C5_Witness ==
    /\ StandingsReady
    /\ \E t \in Range(teams_df) : \E u \in Range(teams_df) :
          /\ Fold(t).Wins > 0
          /\ Fold(t).GF > Fold(t).GA
          /\ Fold(u).Played = 0
          /\ \E i \in DOMAIN standings : \E j \in DOMAIN standings :
                /\ standings[i].Team = t /\ standings[i].Points >= 3
                /\ standings[j].Team = u /\ standings[j].Points = 0

\* C6: every row has Played = Wins + Draws + Losses, a team playing itself
\* included.
C6_PlayedIsWinsDrawsLosses ==
    StandingsReady =>
        \A i \in DOMAIN standings :
            standings[i].Played
                = standings[i].Wins + standings[i].Draws + standings[i].Losses

\* C6 witness: a team that played against itself has a row, with the match
\* counted on both sides
C6_Witness ==
    /\ StandingsReady
    /\ \E g \in PlayedIdx :
          /\ games[g].HomeTeam = games[g].AwayTeam
          /\ games[g].HomeGoals > games[g].AwayGoals
          /\ \E i \in DOMAIN standings :
                /\ standings[i].Team = games[g].HomeTeam
                /\ standings[i].Played >= 2
                /\ standings[i].Losses >= 1

\* C7: every row has Points = 3 * Wins + Draws.
C7_PointsAreThreePerWinOnePerDraw ==
    StandingsReady =>
        \A i \in DOMAIN standings :
            standings[i].Points = 3 * standings[i].Wins + standings[i].Draws

\* C7 witness: a row with a win and a draw
C7_Witness ==
    /\ StandingsReady
    /\ \E i \in DOMAIN standings :
          /\ standings[i].Wins > 0
          /\ standings[i].Draws > 0
          /\ standings[i].Points = 4

\* C8: in every branch the rows are in the order Points descending, GD
\* descending, GF descending, Team ascending, and two rows with the same
\* (Points, GD, GF) are in name order and have the same Rank.
C8_SortedWithSharedRank ==
    StandingsReady =>
        \A i \in DOMAIN standings : \A j \in DOMAIN standings :
            i < j =>
                /\ ~StandingsBefore(standings[j], standings[i])
                /\ RankKey(standings[i]) = RankKey(standings[j])
                      => /\ standings[i].Team <= standings[j].Team
                         /\ standings[i].Rank = standings[j].Rank

\* C9: a loaded match with a missing goal count is classified (0, 0, "N"),
\* the counters of every row are those computed from the match list without
\* it, and it is a row of the per-round listing.
C9_UnplayedMatchOnlyListed ==
    StandingsReady =>
        \A g \in UnplayedIdx :
            /\ games[g].HomePts = 0
            /\ games[g].AwayPts = 0
            /\ games[g].Outcome = "N"
            /\ CounterRows(standings)
                  = CounterRows(compute_standings(RemoveAt(games, g), teams_df))
            /\ ListingReady =>
                  /\ Len(rounds_view) = Len(games)
                  /\ \E k \in DOMAIN rounds_view :
                        rounds_view[k] = ListingRow(games[g])

\* C9 witness: the listing is built from a played and an unplayed match, and
\* the standings count the played one
C9_Witness ==
    /\ ListingReady
    /\ UnplayedIdx # {}
    /\ PlayedIdx # {}
    /\ \E i \in DOMAIN standings : standings[i].Played = 1
    /\ \E g \in UnplayedIdx : \E k \in DOMAIN rounds_view :
          /\ rounds_view[k] = ListingRow(games[g])
          /\ games[g].HomeTeam \in Range(teams_df)

\* C10: no team name occurs in two rows of the standings, nor of
\* standings.csv.
C10_OneRowPerTeam ==
    /\ StandingsReady =>
          \A i \in DOMAIN standings : \A j \in DOMAIN standings :
              standings[i].Team = standings[j].Team => i = j
    /\ \A i \in DOMAIN standings_csv : \A j \in DOMAIN standings_csv :
          standings_csv[i].Team = standings_csv[j].Team => i = j

====
